---- MODULE Spec2Model ----
(***************************************************************************)
(* The allocation engine of logitrack: InventoryOptimizer.optimize and     *)
(* InventoryOptimizer.calculate_distance (src/src/backend/optimizer.py),   *)
(* together with the caller that runs an optimization and may run it again *)
(* on the same loaded datasets (src/app.py).                               *)
(*                                                                         *)
(* Numbers.  The code computes in floating point.  The model keeps every   *)
(* finite quantity as an integer in a fixed unit: distances in metres,     *)
(* costs in thousandths of a cost unit.  The two non-finite floats the     *)
(* code can produce, inf and nan, are separate values (Inf, NaN) with the  *)
(* IEEE comparison rules.                                                  *)
(*                                                                         *)
(* Geography.  All points of the model lie on one meridian (longitude 0),  *)
(* at whole degrees of latitude.  There the Haversine formula reduces to   *)
(* the arc length r * radians(|lat1 - lat2|).                              *)
(***************************************************************************)
EXTENDS Integers, Sequences, FiniteSets, TLC

VARIABLES
    warehouses,        \* the caller's warehouses dataset (a sequence of rows)
    orders,            \* the caller's orders dataset
    loaded,            \* the stock dataset as the loader read it from its file
    heap,              \* the stock datasets in memory, by object identity
    inventory_levels,  \* optimize's local: the object it depletes
    sorted_orders,     \* optimize's local `orders` after sort_values
    i,                 \* position of the for-loop in sorted_orders
    results,           \* optimize's local `results`
    pc,                \* "idle", "loop", "done" (returned), "raised"
    returned,          \* what the caller received: <<>> or <<plan>>
    call,              \* 1 during the first call, 2 during the second
    first              \* the first call as the caller saw it, once a second began

vars == <<warehouses, orders, loaded, heap, inventory_levels, sorted_orders, i,
          results, pc, returned, call, first>>

(***************************************************************************)
(* Bounds of the explored inputs.                                          *)
(***************************************************************************)
NumOrders == 2
MaxQty == 2
MaxStock == 2

(***************************************************************************)
(* Floats.                                                                 *)
(***************************************************************************)
Num(n) == [kind |-> "num", v |-> n]
Inf == [kind |-> "inf", v |-> 0]
NaN == [kind |-> "nan", v |-> 0]

\* a < b on floats: false whenever either side is nan
FloatLess(a, b) ==
    /\ a.kind # "nan"
    /\ b.kind # "nan"
    /\ \/ a.kind = "num" /\ b.kind = "inf"
       \/ a.kind = "num" /\ b.kind = "num" /\ a.v < b.v

\* a * k and a + k for a finite k >= 0 (k > 0 for the product)
FloatScale(a, k) == IF a.kind = "num" THEN Num(a.v * k) ELSE a
FloatAdd(a, n) == IF a.kind = "num" THEN Num(a.v + n) ELSE a

(***************************************************************************)
(* Cell values of a coordinate column: a number of degrees, the missing    *)
(* value marker nan, or something float() rejects (None, text).            *)
(***************************************************************************)
Deg(d) == [kind |-> "num", deg |-> d]
NaNCell == [kind |-> "nan", deg |-> 0]
TextCell == [kind |-> "text", deg |-> 0]

Abs(x) == IF x < 0 THEN -x ELSE x

\* r = 6371 km, as metres of arc per degree: 6371000 * pi / 180, rounded
MetresPerDegree == 111195

\* lines 22-31 for two points on one meridian
Haversine(lat1, lon1, lat2, lon2) == Abs(lat2 - lat1) * MetresPerDegree

HasColumns(row, cols) == cols \subseteq DOMAIN row

calculate_distance(warehouse_row, order_row) ==
    IF \/ ~HasColumns(warehouse_row, {"latitude", "longitude"})
       \/ ~HasColumns(order_row, {"delivery_latitude", "delivery_longitude"})
    THEN Inf                                     \* KeyError, caught
    ELSE LET cells == {warehouse_row.latitude, warehouse_row.longitude,
                       order_row.delivery_latitude, order_row.delivery_longitude}
         IN  IF \E c \in cells : c.kind = "text"
             THEN Inf                            \* float() raises, caught
             ELSE IF \E c \in cells : c.kind = "nan"
             THEN NaN                            \* nan flows through sin, cos, atan2
             ELSE Num(Haversine(warehouse_row.latitude.deg,
                                warehouse_row.longitude.deg,
                                order_row.delivery_latitude.deg,
                                order_row.delivery_longitude.deg))

(***************************************************************************)
(* The cost of serving an order from a warehouse, lines 70-72.             *)
(***************************************************************************)
TransportFactor == 10
\* storage_cost * 0.1, in thousandths of a cost unit
StorageFactorMilli == 100

\* distance is in metres, so distance(km) * 10 is metres * 10 thousandths
transport_cost(warehouse, order) ==
    FloatScale(calculate_distance(warehouse, order), TransportFactor)

storage_cost_penalty(warehouse) == warehouse.storage_cost * StorageFactorMilli

CostStorageSubtracted(warehouse, order) ==
    FloatAdd(transport_cost(warehouse, order), -storage_cost_penalty(warehouse))

Cost(warehouse, order) ==
    FloatAdd(transport_cost(warehouse, order), storage_cost_penalty(warehouse))

(***************************************************************************)
(* The scan of one order's candidates, lines 56-79.                        *)
(***************************************************************************)
NoWarehouse == "None"

InitialBest == [warehouse_id |-> NoWarehouse, cost |-> Inf, distance |-> Inf]

\* warehouses[warehouses['warehouse_id'] == warehouse_id]
WarehouseRows(ws, warehouse_id) ==
    SelectSeq(ws, LAMBDA w : w.warehouse_id = warehouse_id)

EnoughStockStrict(stock_info, order_quantity) ==
    stock_info.current_stock > order_quantity

EnoughStockPositive(stock_info, order_quantity) ==
    stock_info.current_stock > 0

\* line 65
EnoughStock(stock_info, order_quantity) ==
    stock_info.current_stock >= order_quantity

\* line 61: the rows of the product, in row order, as row numbers
PossibleInventory(levels, order_product_id) ==
    {k \in DOMAIN levels : levels[k].product_id = order_product_id}

ImprovesOrTies(cost, best) ==
    FloatLess(cost, best.cost) \/ (cost = best.cost /\ cost.kind = "num")

\* line 74
Improves(cost, best) == FloatLess(cost, best.cost)

ScoreRowSkipUnlisted(scan, stock_info, order, ws) ==
    IF scan.raised \/ ~EnoughStock(stock_info, order.quantity)
    THEN scan
    ELSE LET found == WarehouseRows(ws, stock_info.warehouse_id)
         IN  IF found = <<>>
             THEN scan
             ELSE IF ~HasColumns(found[1], {"storage_cost"})
             THEN [scan EXCEPT !.raised = TRUE]
             ELSE LET cost == Cost(found[1], order)
                  IN  IF Improves(cost, scan.best)
                      THEN [scan EXCEPT !.best =
                               [warehouse_id |-> stock_info.warehouse_id,
                                cost |-> cost,
                                distance |-> calculate_distance(found[1], order)]]
                      ELSE scan

\* lines 65-79 for one row; a scan is [raised, best]
ScoreRow(scan, stock_info, order, ws) ==
    IF scan.raised \/ ~EnoughStock(stock_info, order.quantity)
    THEN scan
    ELSE LET found == WarehouseRows(ws, stock_info.warehouse_id)
         IN  IF found = <<>>                                  \* .iloc[0]: IndexError
             THEN [scan EXCEPT !.raised = TRUE]
             ELSE IF ~HasColumns(found[1], {"storage_cost"})  \* KeyError
             THEN [scan EXCEPT !.raised = TRUE]
             ELSE LET cost == Cost(found[1], order)
                  IN  IF Improves(cost, scan.best)
                      THEN [scan EXCEPT !.best =
                               [warehouse_id |-> stock_info.warehouse_id,
                                cost |-> cost,
                                distance |-> calculate_distance(found[1], order)]]
                      ELSE scan

RECURSIVE ScanRows(_, _, _, _, _)
\* rows k..Len(levels) of the product, in row order
ScanRows(k, scan, levels, order, ws) ==
    IF k > Len(levels)
    THEN scan
    ELSE ScanRows(k + 1,
                  IF k \in PossibleInventory(levels, order.product_id)
                  THEN ScoreRow(scan, levels[k], order, ws)
                  ELSE scan,
                  levels, order, ws)

BestAllocation(levels, order, ws) ==
    ScanRows(1, [raised |-> FALSE, best |-> InitialBest], levels, order, ws)

(***************************************************************************)
(* Depletion, lines 96-98: every row the mask selects is decremented.      *)
(***************************************************************************)
InventoryMaskWarehouseOnly(row, warehouse_id, order_product_id) ==
    row.warehouse_id = warehouse_id

InventoryMask(row, warehouse_id, order_product_id) ==
    row.warehouse_id = warehouse_id /\ row.product_id = order_product_id

DepleteNothing(levels, warehouse_id, order_product_id, order_quantity) == levels

Deplete(levels, warehouse_id, order_product_id, order_quantity) ==
    [k \in DOMAIN levels |->
        IF InventoryMask(levels[k], warehouse_id, order_product_id)
        THEN [levels[k] EXCEPT !.current_stock = @ - order_quantity]
        ELSE levels[k]]

(***************************************************************************)
(* sort_values(by=['status','quantity'], ascending=[True, False]), line 53.*)
(* Statuses compare as strings; StatusOrder lists them in that order.      *)
(* With several keys pandas sorts by a stable lexsort.                     *)
(***************************************************************************)
StatusOrder == <<"Pending", "Urgent">>

StatusRank(s) == CHOOSE k \in DOMAIN StatusOrder : StatusOrder[k] = s

SortsBeforeOrTies(a, b) ==
    \/ StatusRank(a.status) < StatusRank(b.status)
    \/ a.status = b.status /\ a.quantity >= b.quantity

\* the sort key of a is strictly before that of b
SortsBefore(a, b) ==
    \/ StatusRank(a.status) < StatusRank(b.status)
    \/ a.status = b.status /\ a.quantity > b.quantity

RECURSIVE InsertStable(_, _)
\* row goes before the first element its key is strictly before
InsertStable(row, sorted) ==
    IF sorted = <<>> THEN <<row>>
    ELSE IF SortsBefore(row, Head(sorted)) THEN <<row>> \o sorted
    ELSE <<Head(sorted)>> \o InsertStable(row, Tail(sorted))

RECURSIVE sort_values(_)
sort_values(rows) ==
    IF rows = <<>> THEN <<>>
    ELSE InsertStable(rows[Len(rows)], sort_values(SubSeq(rows, 1, Len(rows) - 1)))

(***************************************************************************)
(* optimize's results dictionary, lines 41-48.  warehouse_utilization is   *)
(* never written and solving_time is wall-clock time; neither is kept.     *)
(***************************************************************************)
NewResults ==
    [allocation_plan |-> <<>>,       \* warehouse_id -> list of entries
     unfulfilled_orders |-> <<>>,
     total_cost |-> 0,
     status |-> "In Progress"]

NoResults == [NewResults EXCEPT !.status = "None"]

AllocateDistanceAdded(res, order, best) ==
    LET w == best.warehouse_id
        entry == [order_id |-> order.order_id,
                  quantity |-> order.quantity,
                  cost |-> best.cost,
                  distance |-> best.distance]
        plan == res.allocation_plan
    IN  [res EXCEPT
            !.allocation_plan =
                IF w \in DOMAIN plan
                THEN [plan EXCEPT ![w] = Append(@, entry)]
                ELSE plan @@ (w :> <<entry>>),
            !.total_cost = @ + best.distance.v]

\* lines 85-93 and 100
Allocate(res, order, best) ==
    LET w == best.warehouse_id
        entry == [order_id |-> order.order_id,
                  quantity |-> order.quantity,
                  cost |-> best.cost,
                  distance |-> best.distance]
        plan == res.allocation_plan
    IN  [res EXCEPT
            !.allocation_plan =
                IF w \in DOMAIN plan
                THEN [plan EXCEPT ![w] = Append(@, entry)]
                ELSE plan @@ (w :> <<entry>>),
            !.total_cost = @ + best.cost.v]

UnfulfilledDropped(res, order) == res

\* lines 102-106
Unfulfilled(res, order) ==
    [res EXCEPT !.unfulfilled_orders =
        Append(@, [order_id |-> order.order_id,
                   quantity |-> order.quantity,
                   reason |-> [text |-> "Insufficient stock for product",
                               product_id |-> order.product_id]])]

(***************************************************************************)
(* Objects.  inventory.copy() makes a new object with the same rows.       *)
(***************************************************************************)
SameObject(ref) == ref

\* line 51: the object the copy is
DataFrameCopy(ref) == "working_copy"

ReturnPartialPlan(res) == <<res>>

\* lines 115-117: the exception leaves optimize, nothing is returned
RaiseValueError(res) == <<>>

\* line 113
ReturnPlan(res) == <<res>>

(***************************************************************************)
(* The steps of optimize.                                                  *)
(***************************************************************************)
\* lines 38-53
Begin ==
    /\ pc = "idle"
    /\ inventory_levels' = DataFrameCopy("inventory")
    /\ heap' = [heap EXCEPT ![inventory_levels'] = heap["inventory"]]
    /\ results' = NewResults
    /\ IF \A k \in DOMAIN orders : HasColumns(orders[k], {"status", "quantity"})
       THEN /\ sorted_orders' = sort_values(orders)
            /\ i' = 1
            /\ pc' = "loop"
            /\ returned' = returned
       ELSE /\ pc' = "raised"                       \* KeyError in sort_values
            /\ returned' = RaiseValueError(results')
            /\ UNCHANGED <<sorted_orders, i>>
    /\ UNCHANGED <<warehouses, orders, loaded, call, first>>

\* one iteration of the loop, lines 55-106
ProcessOrder ==
    /\ pc = "loop"
    /\ i <= Len(sorted_orders)
    /\ LET order == sorted_orders[i]
           levels == heap[inventory_levels]
           scan == BestAllocation(levels, order, warehouses)
       IN  IF scan.raised
           THEN /\ pc' = "raised"
                /\ returned' = RaiseValueError(results)
                /\ UNCHANGED <<heap, results, i>>
           ELSE IF scan.best.warehouse_id # NoWarehouse
           THEN /\ results' = Allocate(results, order, scan.best)
                /\ heap' = [heap EXCEPT ![inventory_levels] =
                               Deplete(levels, scan.best.warehouse_id,
                                       order.product_id, order.quantity)]
                /\ i' = i + 1
                /\ UNCHANGED <<pc, returned>>
           ELSE /\ results' = Unfulfilled(results, order)
                /\ i' = i + 1
                /\ UNCHANGED <<heap, pc, returned>>
    /\ UNCHANGED <<warehouses, orders, loaded, inventory_levels, sorted_orders,
                   call, first>>

\* lines 108-113
Return ==
    /\ pc = "loop"
    /\ i > Len(sorted_orders)
    /\ results' = [results EXCEPT !.status = "Completed"]
    /\ returned' = ReturnPlan(results')
    /\ pc' = "done"
    /\ UNCHANGED <<warehouses, orders, loaded, heap, inventory_levels,
                   sorted_orders, i, call, first>>

(***************************************************************************)
(* The caller, src/app.py lines 325-340: each press of the button calls    *)
(* optimize with the datasets the loader holds.  Between two calls the     *)
(* storage-cost rate of one warehouse may have been raised.                *)
(***************************************************************************)
StorageCosts == {100, 20000}

HigherStorageCost(ws) ==
    UNION {{[ws EXCEPT ![k].storage_cost = s] :
               s \in {t \in StorageCosts : t > ws[k].storage_cost}} :
           k \in {j \in DOMAIN ws : HasColumns(ws[j], {"storage_cost"})}}

CallAgain ==
    /\ pc \in {"done", "raised"}
    /\ call = 1
    /\ \E ws \in {warehouses} \cup HigherStorageCost(warehouses) :
           warehouses' = ws
    /\ first' = <<[warehouses |-> warehouses, pc |-> pc, returned |-> returned]>>
    /\ call' = 2
    /\ pc' = "idle"
    /\ returned' = <<>>
    /\ results' = NoResults
    /\ sorted_orders' = <<>>
    /\ i' = 0
    /\ UNCHANGED <<orders, loaded, heap, inventory_levels>>

(***************************************************************************)
(* The datasets a run starts from.                                         *)
(***************************************************************************)
Products == {"P1", "P2"}
WarehouseIds == <<"W1", "W2">>
\* "W3" is a warehouse no warehouses dataset lists
StockWarehouseIds == {"W1", "W2", "W3"}
Cells == {Deg(0), Deg(1), NaNCell, TextCell}

WarehouseRow(id, lat, sc) ==
    [warehouse_id |-> id, latitude |-> lat, longitude |-> Deg(0), storage_cost |-> sc]

OrderRow(id, p, q, st, lat) ==
    [order_id |-> id, product_id |-> p, quantity |-> q, status |-> st,
     delivery_latitude |-> lat, delivery_longitude |-> Deg(0)]

StockRow(w, p, q) == [warehouse_id |-> w, product_id |-> p, current_stock |-> q]

\* a dataset without one of its columns
DropColumn(rows, col) ==
    [k \in DOMAIN rows |-> [c \in (DOMAIN rows[k]) \ {col} |-> rows[k][c]]]

StockRows ==
    {StockRow(w, p, q) : w \in StockWarehouseIds, p \in Products, q \in 1..MaxStock}

PlainWarehouses ==
    [k \in DOMAIN WarehouseIds |-> WarehouseRow(WarehouseIds[k], Deg(0), 100)]

PlainOrders ==
    [k \in 1..NumOrders |-> OrderRow(k, "P1", 1, "Pending", Deg(0))]

\* Orders and stock vary; the warehouses are in one place at one rate.
DepletionInputs ==
    [ws : {PlainWarehouses},
     os : {[k \in 1..NumOrders |-> OrderRow(k, "P1", f[k][1], f[k][2], Deg(0))] :
              f \in [1..NumOrders -> (1..MaxQty) \X {"Pending", "Urgent"}]},
     st : {<<r1, r2>> : r1 \in StockRows, r2 \in StockRows}]

\* Places and rates vary; every order asks for one unit of P1, which both
\* warehouses stock in plenty, or of which W1 alone holds a single unit.
GeographyInputs ==
    [ws : {[k \in DOMAIN WarehouseIds |->
               WarehouseRow(WarehouseIds[k], f[k][1], f[k][2])] :
              f \in [DOMAIN WarehouseIds -> Cells \X StorageCosts]}
          \cup {DropColumn(PlainWarehouses, "latitude"),
                 DropColumn(PlainWarehouses, "storage_cost")},
     os : {[k \in 1..NumOrders |-> OrderRow(k, "P1", 1, "Pending", f[k])] :
              f \in [1..NumOrders -> Cells]}
          \cup {DropColumn(PlainOrders, "status")},
     st : {<<StockRow("W1", "P1", MaxStock), StockRow("W2", "P1", MaxStock)>>,
           <<StockRow("W2", "P1", MaxStock), StockRow("W1", "P1", MaxStock)>>,
           <<StockRow("W1", "P1", 1), StockRow("W2", "P2", 1)>>}]

Inputs == DepletionInputs \cup GeographyInputs

Init ==
    /\ \E in \in Inputs :
          /\ warehouses = in.ws
          /\ orders = in.os
          /\ loaded = in.st
          /\ heap = [inventory |-> in.st, working_copy |-> <<>>]
    /\ inventory_levels = "unset"
    /\ sorted_orders = <<>>
    /\ i = 0
    /\ results = NoResults
    /\ pc = "idle"
    /\ returned = <<>>
    /\ call = 1
    /\ first = <<>>

Next == Begin \/ ProcessOrder \/ Return \/ CallAgain


(***************************************************************************)
(* What the claims speak of.                                               *)
(***************************************************************************)
\* the engine's working stock, once a call has taken it
WorkingStock == heap[inventory_levels]

Running == pc \in {"loop", "done", "raised"}

\* the data model of the stock: one record per (warehouse, product), none negative
StockDataModel(stock) ==
    /\ \A j, k \in DOMAIN stock :
          (/\ stock[j].warehouse_id = stock[k].warehouse_id
           /\ stock[j].product_id = stock[k].product_id) => j = k
    /\ \A k \in DOMAIN stock : stock[k].current_stock >= 0

PlanWarehouses(res) == DOMAIN res.allocation_plan

\* the order ids of the entries under warehouse w
AllocatedTo(res, w) ==
    IF w \in PlanWarehouses(res)
    THEN {res.allocation_plan[w][k].order_id : k \in DOMAIN res.allocation_plan[w]}
    ELSE {}

AllAllocated(res) == UNION {AllocatedTo(res, w) : w \in PlanWarehouses(res)}

UnfulfilledIds(res) ==
    {res.unfulfilled_orders[k].order_id : k \in DOMAIN res.unfulfilled_orders}

\* orders are numbered by their row, so an order id finds its row
OrderOf(id) == orders[id]

RECURSIVE SumQuantity(_, _)
\* the quantities of the entries of a list that are for product p, summed
SumQuantity(entries, p) ==
    IF entries = <<>> THEN 0
    ELSE (IF OrderOf(Head(entries).order_id).product_id = p
          THEN Head(entries).quantity ELSE 0)
         + SumQuantity(Tail(entries), p)

AllocatedQuantity(res, w, p) ==
    IF w \in PlanWarehouses(res) THEN SumQuantity(res.allocation_plan[w], p) ELSE 0

\* C1: with stock that satisfies the data model, no record of the working
\* copy is ever negative, however many allocations have been committed.
C1_StockNeverNegative ==
    (Running /\ StockDataModel(loaded)) =>
        \A k \in DOMAIN WorkingStock : WorkingStock[k].current_stock >= 0

\* a run that allocated, and emptied a record exactly
C1_Witness ==
    /\ pc = "done"
    /\ StockDataModel(loaded)
    /\ AllAllocated(results) # {}
    /\ \E k \in DOMAIN WorkingStock :
          WorkingStock[k].current_stock = 0 /\ loaded[k].current_stock > 0

\* C2: in a returned plan every stock record ends at its initial quantity
\* minus what was allocated under its warehouse for orders of its product.
C2_StockAccounting ==
    pc = "done" =>
        \A k \in DOMAIN WorkingStock :
            WorkingStock[k].current_stock =
                loaded[k].current_stock
                - AllocatedQuantity(results, loaded[k].warehouse_id,
                                    loaded[k].product_id)

\* one record depleted, one of the same warehouse and another product untouched
C2_Witness ==
    /\ pc = "done"
    /\ \E j, k \in DOMAIN WorkingStock :
          /\ WorkingStock[j].current_stock < loaded[j].current_stock
          /\ WorkingStock[k] = loaded[k]
          /\ loaded[j].warehouse_id = loaded[k].warehouse_id
          /\ loaded[j].product_id # loaded[k].product_id

RECURSIVE Occurrences(_, _)
\* how many entries of a list carry the order id
Occurrences(entries, id) ==
    IF entries = <<>> THEN 0
    ELSE (IF Head(entries).order_id = id THEN 1 ELSE 0)
         + Occurrences(Tail(entries), id)

RECURSIVE PlanOccurrences(_, _, _)
PlanOccurrences(res, ws, id) ==
    IF ws = {} THEN 0
    ELSE LET w == CHOOSE x \in ws : TRUE
         IN  Occurrences(res.allocation_plan[w], id)
             + PlanOccurrences(res, ws \ {w}, id)

\* C3: in a returned plan every input order is recorded exactly once,
\* as one allocation entry or as one unfulfilled entry.
C3_OrdersPartitioned ==
    pc = "done" =>
        \A id \in DOMAIN orders :
            PlanOccurrences(results, PlanWarehouses(results), id)
            + Occurrences(results.unfulfilled_orders, id) = 1

\* a plan with an allocated and an unfulfilled order
C3_Witness ==
    /\ pc = "done"
    /\ AllAllocated(results) # {}
    /\ UnfulfilledIds(results) # {}

\* C4: the caller's stock dataset is never changed by optimize.
C4_CallerStockUntouched == heap["inventory"] = loaded

\* a call that depleted its working copy and then failed
C4_Witness ==
    /\ pc = "raised"
    /\ \E k \in DOMAIN WorkingStock :
          WorkingStock[k].current_stock < loaded[k].current_stock

\* the orders a results dictionary records, allocated or unfulfilled
Recorded(res) == AllAllocated(res) \cup UnfulfilledIds(res)

\* a goes before b: earlier status, or the same status and a larger quantity,
\* or both the same and a earlier in the input
Precedes(a, b) ==
    \/ StatusRank(OrderOf(a).status) < StatusRank(OrderOf(b).status)
    \/ /\ OrderOf(a).status = OrderOf(b).status
       /\ OrderOf(a).quantity > OrderOf(b).quantity
    \/ /\ OrderOf(a).status = OrderOf(b).status
       /\ OrderOf(a).quantity = OrderOf(b).quantity
       /\ a < b

\* C5: orders are processed by status ascending, then quantity descending,
\* then input order: the order an iteration records goes before every
\* order not yet recorded.
C5_ProcessingOrder ==
    [][(pc = "loop" /\ i' = i + 1) =>
          \E a \in DOMAIN orders :
              /\ Recorded(results') = Recorded(results) \cup {a}
              /\ a \notin Recorded(results)
              /\ \A b \in (DOMAIN orders) \ Recorded(results') : Precedes(a, b)]_vars

\* a run that processed the second input order first, for its larger quantity
C5_Witness ==
    /\ pc = "done"
    /\ sorted_orders[1].order_id = 2
    /\ orders[1].status = orders[2].status
    /\ orders[1].quantity < orders[2].quantity
    /\ Len(orders) = NumOrders

\* the rows of the working stock that can cover the order in full
FeasibleRows(stock, id) ==
    {k \in DOMAIN stock :
        /\ stock[k].product_id = OrderOf(id).product_id
        /\ stock[k].current_stock >= OrderOf(id).quantity}

\* distance * 10 + storage_cost * 0.1 for the warehouse a stock row names
RowCost(stock, k, id) ==
    Cost(WarehouseRows(warehouses, stock[k].warehouse_id)[1], OrderOf(id))

\* C6: an allocated order goes to a warehouse that had the stock for it when
\* it was processed, at a cost no other such candidate undercuts, and among
\* the candidates of that cost to the one first in stock row order.
C6_CheapestFeasibleFirst ==
    [][\A id \in DOMAIN orders, w \in PlanWarehouses(results') :
          (pc = "loop" /\ id \in AllocatedTo(results', w) \ Recorded(results)) =>
              \E k \in FeasibleRows(WorkingStock, id) :
                  /\ WorkingStock[k].warehouse_id = w
                  /\ \A j \in FeasibleRows(WorkingStock, id) :
                        /\ ~FloatLess(RowCost(WorkingStock, j, id),
                                      RowCost(WorkingStock, k, id))
                        /\ RowCost(WorkingStock, j, id) = RowCost(WorkingStock, k, id)
                              => k <= j]_vars

\* the first order processed went to W2 although W1 had the stock too and
\* costs the same: W2's stock record is the first of the two
C6_Witness ==
    /\ pc = "done"
    /\ call = 1
    /\ sorted_orders[1].order_id \in AllocatedTo(results, "W2")
    /\ \E j, k \in FeasibleRows(loaded, sorted_orders[1].order_id) :
          /\ loaded[j].warehouse_id = "W2"
          /\ loaded[k].warehouse_id = "W1"
          /\ j < k
          /\ RowCost(loaded, j, sorted_orders[1].order_id)
                = RowCost(loaded, k, sorted_orders[1].order_id)

\* the first call, once a second has begun
FirstCall == first[1]
FirstPlan == FirstCall.returned[1]

BothReturned == call = 2 /\ pc = "done" /\ FirstCall.pc = "done"

\* the second call's warehouses are the first's with row k at a higher rate
OnlyRateRaised(k) ==
    /\ HasColumns(warehouses[k], {"storage_cost"})
    /\ warehouses[k].storage_cost > FirstCall.warehouses[k].storage_cost
    /\ warehouses = [FirstCall.warehouses EXCEPT
                        ![k].storage_cost = warehouses[k].storage_cost]

Gained(w) == AllocatedTo(results, w) \ AllocatedTo(FirstPlan, w)
Lost(w) == AllocatedTo(FirstPlan, w) \ AllocatedTo(results, w)

\* where the loop met the order
Position(id) == CHOOSE p \in DOMAIN sorted_orders : sorted_orders[p].order_id = id

\* C7 as stated: after raising the storage-cost rate of one warehouse,
\* every order the second run allocates to it the first run allocated to it.
C7_NeverGains ==
    BothReturned =>
        \A k \in DOMAIN warehouses :
            OnlyRateRaised(k) => Gained(warehouses[k].warehouse_id) = {}

\* the warehouses under which a plan records the order: one, or none
AssignedTo(res, id) == {w \in PlanWarehouses(res) : id \in AllocatedTo(res, w)}

\* the orders the two runs place differently
Moved ==
    {id \in DOMAIN orders : AssignedTo(results, id) # AssignedTo(FirstPlan, id)}

\* the first of them in processing order
FirstMoved == {d \in Moved : \A e \in Moved : Position(d) <= Position(e)}

\* what the raised rate of warehouse row k adds to a cost, in thousandths
RateStep(k) ==
    (warehouses[k].storage_cost - FirstCall.warehouses[k].storage_cost)
        * StorageFactorMilli

EntriesOf(res, w) ==
    IF w \in PlanWarehouses(res) THEN res.allocation_plan[w] ELSE <<>>

\* the second plan is the first with the entries under the warehouse of row k
\* at a cost higher by the rate step, and nothing else changed
SamePlanRepriced(k) ==
    LET w == warehouses[k].warehouse_id
    IN  /\ PlanWarehouses(results) = PlanWarehouses(FirstPlan)
        /\ results.unfulfilled_orders = FirstPlan.unfulfilled_orders
        /\ results.status = FirstPlan.status
        /\ \A x \in PlanWarehouses(results) \ {w} :
              results.allocation_plan[x] = FirstPlan.allocation_plan[x]
        /\ Len(EntriesOf(results, w)) = Len(EntriesOf(FirstPlan, w))
        /\ \A n \in DOMAIN EntriesOf(results, w) :
              EntriesOf(results, w)[n] =
                  [EntriesOf(FirstPlan, w)[n] EXCEPT !.cost = FloatAdd(@, RateStep(k))]
        /\ results.total_cost =
              FirstPlan.total_cost + RateStep(k) * Len(EntriesOf(results, w))

\* C7 amended, for two runs that both return a plan and differ only in the
\* higher storage-cost rate of one warehouse W: the first order the runs
\* place differently is one W held in the first run and lost in the second;
\* every order W gains is processed after an order it lost; and if W loses
\* nothing the second plan is the first one with only the cost of W's
\* entries, and the total cost, raised by the rate step.
C7_GainsOnlyAfterLoss ==
    BothReturned =>
        \A k \in DOMAIN warehouses :
            OnlyRateRaised(k) =>
                /\ FirstMoved \subseteq Lost(warehouses[k].warehouse_id)
                /\ \A g \in Gained(warehouses[k].warehouse_id) :
                      \E l \in Lost(warehouses[k].warehouse_id) :
                          Position(l) < Position(g)
                /\ Lost(warehouses[k].warehouse_id) = {} => SamePlanRepriced(k)

\* the raised warehouse lost an order and, its stock spared, gained a later one
C7_Witness ==
    /\ BothReturned
    /\ \E k \in DOMAIN warehouses :
          /\ OnlyRateRaised(k)
          /\ Gained(warehouses[k].warehouse_id) # {}
          /\ Lost(warehouses[k].warehouse_id) # {}

\* C8: a second call on the same datasets gives what the first gave:
\* the same plan, unfulfilled list and total cost, or the same failure.
C8_SecondRunIdentical ==
    (call = 2 /\ pc \in {"done", "raised"} /\ warehouses = FirstCall.warehouses) =>
        /\ pc = FirstCall.pc
        /\ returned = FirstCall.returned

\* a second run on the same datasets whose first run depleted stock and
\* left an order unfulfilled
C8_Witness ==
    /\ BothReturned
    /\ warehouses = FirstCall.warehouses
    /\ AllAllocated(FirstPlan) # {}
    /\ UnfulfilledIds(FirstPlan) # {}
    /\ returned = FirstCall.returned

\* C9: a call that fails hands the caller no plan; a plan the caller gets
\* is complete.
C9_NoPartialPlan ==
    /\ pc = "raised" => returned = <<>>
    /\ returned # <<>> =>
          /\ pc = "done"
          /\ returned[1].status = "Completed"
          /\ Recorded(returned[1]) = DOMAIN orders

\* a call that failed after it had allocated an order
C9_Witness ==
    /\ pc = "raised"
    /\ AllAllocated(results) # {}
    /\ returned = <<>>

\* a coordinate of the pair is absent or is not a number
Uncomputable(warehouse_row, order_row) ==
    \/ ~HasColumns(warehouse_row, {"latitude", "longitude"})
    \/ ~HasColumns(order_row, {"delivery_latitude", "delivery_longitude"})
    \/ \E c \in {warehouse_row.latitude, warehouse_row.longitude,
                 order_row.delivery_latitude, order_row.delivery_longitude} :
           c.kind # "num"

\* a dataset lacks a column the loop reads, or the stock names an unlisted warehouse
StructuralDefect ==
    \/ \E k \in DOMAIN orders : ~HasColumns(orders[k], {"status", "quantity"})
    \/ \E k \in DOMAIN warehouses : ~HasColumns(warehouses[k], {"storage_cost"})
    \/ \E k \in DOMAIN loaded : WarehouseRows(warehouses, loaded[k].warehouse_id) = <<>>

\* C10 as stated: a warehouse whose distance to a processed order cannot be
\* computed gets the infinite distance and is not allocated the order, and
\* the run fails for no such reason.
C10_InfiniteSentinel ==
    /\ \A k \in DOMAIN warehouses, id \in Recorded(results) :
          Uncomputable(warehouses[k], OrderOf(id)) =>
              /\ calculate_distance(warehouses[k], OrderOf(id)) = Inf
              /\ id \notin AllocatedTo(results, warehouses[k].warehouse_id)
    /\ pc = "raised" => StructuralDefect

\* what of C10 the code does keep: such a warehouse is never allocated the
\* order, whether its distance came out inf or nan, and the run goes on
UncomputableNeverSelected ==
    /\ \A k \in DOMAIN warehouses, id \in Recorded(results) :
          Uncomputable(warehouses[k], OrderOf(id)) =>
              /\ calculate_distance(warehouses[k], OrderOf(id)) \in {Inf, NaN}
              /\ id \notin AllocatedTo(results, warehouses[k].warehouse_id)
    /\ pc = "raised" => StructuralDefect

\* the order the loop is about to process
Current == sorted_orders[i].order_id

\* an iteration that ran to its end
Iterated == pc = "loop" /\ i <= Len(sorted_orders) /\ i' = i + 1

\* the feasible rows whose warehouse has a finite cost for the order
ScorableRows(stock, id) ==
    {k \in FeasibleRows(stock, id) : RowCost(stock, k, id).kind = "num"}

UnpricedRows(stock, id) ==
    {k \in FeasibleRows(stock, id) :
        \/ WarehouseRows(warehouses, stock[k].warehouse_id) = <<>>
        \/ ~HasColumns(WarehouseRows(warehouses, stock[k].warehouse_id)[1],
                       {"storage_cost"})}

RECURSIVE StockUpTo(_, _, _)
\* the stock of product p in rows 1..n
StockUpTo(stock, p, n) ==
    IF n = 0 THEN 0
    ELSE (IF stock[n].product_id = p THEN stock[n].current_stock ELSE 0)
         + StockUpTo(stock, p, n - 1)

TotalStock(stock, p) == StockUpTo(stock, p, Len(stock))

\* a and b ask for one product, each is covered by the initial stock alone,
\* together they ask for more than all of it, and a is processed before b
CompetingPair(a, b) ==
    /\ a # b
    /\ OrderOf(a).product_id = OrderOf(b).product_id
    /\ FeasibleRows(loaded, a) # {}
    /\ FeasibleRows(loaded, b) # {}
    /\ OrderOf(a).quantity + OrderOf(b).quantity
          > TotalStock(loaded, OrderOf(a).product_id)
    /\ Position(a) < Position(b)

\* no order of a's product is processed before a
FirstOfProduct(a) ==
    \A c \in DOMAIN orders :
        OrderOf(c).product_id = OrderOf(a).product_id => Position(a) <= Position(c)

\* C12 as stated: of two orders for one product, each covered by the initial
\* stock alone and together exceeding it, the one processed first is
\* allocated and the other is unfulfilled.
C12_FirstWinsSecondFails ==
    pc = "done" =>
        \A a, b \in DOMAIN orders :
            CompetingPair(a, b) =>
                /\ a \in AllAllocated(results)
                /\ b \in UnfulfilledIds(results)

\* C12 amended: so it is when the earlier of the two is the first order of
\* the product to be processed and some record that covers it belongs to a
\* warehouse whose cost for it is finite.
C12_DepletionOrdering ==
    pc = "done" =>
        \A a, b \in DOMAIN orders :
            (/\ CompetingPair(a, b)
             /\ FirstOfProduct(a)
             /\ ScorableRows(loaded, a) # {}) =>
                /\ a \in AllAllocated(results)
                /\ b \in UnfulfilledIds(results)

\* the larger of two competing orders, second in the input, took the stock
C12_Witness ==
    /\ pc = "done"
    /\ CompetingPair(2, 1)
    /\ FirstOfProduct(2)
    /\ 2 \in AllAllocated(results)
    /\ 1 \in UnfulfilledIds(results)

RECURSIVE SumCost(_)
\* the cost fields of a list of entries, summed
SumCost(entries) ==
    IF entries = <<>> THEN 0 ELSE Head(entries).cost.v + SumCost(Tail(entries))

RECURSIVE PlanCost(_, _)
PlanCost(res, ws) ==
    IF ws = {} THEN 0
    ELSE LET w == CHOOSE x \in ws : TRUE
         IN  SumCost(res.allocation_plan[w]) + PlanCost(res, ws \ {w})

EntriesFinite(res) ==
    \A w \in PlanWarehouses(res) :
        \A k \in DOMAIN res.allocation_plan[w] :
            res.allocation_plan[w][k].cost.kind = "num"

\* C13: in every state of a run, and in the plan returned, total_cost is
\* the sum of the cost fields of the allocation entries recorded so far;
\* with no entry it is 0.
C13_TotalCostIsSum ==
    /\ Running =>
          /\ EntriesFinite(results)
          /\ results.total_cost = PlanCost(results, PlanWarehouses(results))
    /\ \A k \in DOMAIN returned :
          returned[k].total_cost = PlanCost(returned[k], PlanWarehouses(returned[k]))

\* a plan with entries under both warehouses, at different costs
C13_Witness ==
    /\ pc = "done"
    /\ PlanWarehouses(results) = {"W1", "W2"}
    /\ results.allocation_plan["W1"][1].cost # results.allocation_plan["W2"][1].cost
    /\ results.total_cost > 0

\* the feasible rows that name a warehouse the warehouses dataset does not list
UnlistedRows(stock, id) ==
    {k \in FeasibleRows(stock, id) :
        WarehouseRows(warehouses, stock[k].warehouse_id) = <<>>}

ListedRows(stock, id) == FeasibleRows(stock, id) \ UnlistedRows(stock, id)

\* C14: a stock record that covers the order but names an unlisted warehouse
\* is not skipped: the iteration that meets it ends the call with a
\* ValueError and no plan, whatever else is feasible or already allocated.
C14_UnlistedWarehouseAborts ==
    [][(/\ pc = "loop"
        /\ i <= Len(sorted_orders)
        /\ UnlistedRows(WorkingStock, Current) # {}
        /\ vars' # vars) =>
          /\ pc' = "raised"
          /\ returned' = <<>>
          /\ Current \notin Recorded(results')]_vars

\* the call failed on an order that a listed warehouse could have served
C14_Witness ==
    /\ pc = "raised"
    /\ returned = <<>>
    /\ i \in DOMAIN sorted_orders
    /\ UnlistedRows(WorkingStock, Current) # {}
    /\ ListedRows(WorkingStock, Current) # {}

Spec == Init /\ [][Next]_vars
====
